---- MODULE Spec2Model ----
(***************************************************************************)
(* A model of delatex: the LaTeX engine of src/latex/core.py (constructor, *)
(* macro preprocessing, rendering, sanitization) and the text helpers of   *)
(* src/lib/helpers.py.                                                     *)
(*                                                                         *)
(* Strings are sequences of one-character strings, so that the string      *)
(* operations of the code (replace, regular expressions, startswith) are   *)
(* computed character by character.  "U+2014" and "U+2013" stand for the   *)
(* em dash and the en dash, "U+00E9" for e-acute, "U+03B1" for alpha,      *)
(* "U+0060" for the grave accent.                                          *)
(***************************************************************************)
EXTENDS Integers, Sequences, FiniteSets, TLC

VARIABLES
    pc,        \* position of the program: which call runs next
    flags,     \* slot LaTeX.flags: << >> while the slot is unset, <<v>> once set
    filters,   \* LaTeX.filters: the classification tables of filters2.yaml
    tex,       \* LaTeX.tex: the node tree (a sequence of top-level nodes)
    idx,       \* position of the top-level for loop of _to_plain_text
    text,      \* LaTeX.text / the string under construction
    err,       \* the exception that ended the call, "none" if none
    grandom,   \* state of the random module's global generator
    srandom,   \* state of LaTeX.random: << >> unseeded, <<label>> after seed(label)
    refs,      \* history: the (label, uid) pairs rendered so far
    runs,      \* number of renders started so far
    doc,       \* the document given to the constructor, as TexSoup parses it
    flagsArg,  \* the flags argument the caller passes to the constructor
    it,        \* cursor of the generator driving the for loop of _preprocess_macros
    last,      \* history: what the last loop iteration did
    src,       \* the raw string given to the function under study
    crlf,      \* the CrlfFlag given to normalize_linebreaks
    arg,       \* the src argument of the to_text call
    script,    \* the batch driver that runs: "detex" or "detexm" ("none": no batch)
    source,    \* the source collection: its documents in cursor order
    destination, \* the destination collection: the titles of its documents
    procs,     \* the worker processes of the batch driver (<< >> before the start)
    argv,      \* sys.argv[1:]: the strings of the command line that concern -debug
    given,     \* history: the integer base36_encode was called with
    encoded,   \* what base36_encode returned
    decoded    \* what base36_decode returned

vars == <<pc, flags, filters, tex, idx, text, err, grandom, srandom, refs, runs,
          doc, flagsArg, it, last, src, crlf, arg, script, source, destination, procs,
          argv, given, encoded, decoded>>

(***************************************************************************)
(* Bounds of the model.                                                    *)
(***************************************************************************)
MaxNodes == 2
MaxRuns == 2
MaxMacroNodes == 3

(***************************************************************************)
(* String helpers (Python str semantics).                                  *)
(***************************************************************************)
Min(a, b) == IF a < b THEN a ELSE b

\* s[i:] (1-based i): the suffix of s starting at position i
From(s, i) == IF i > Len(s) THEN << >> ELSE SubSeq(s, i, Len(s))

\* s.startswith(p, i-1): p occurs in s at position i
MatchAt(s, i, p) ==
    /\ i >= 1
    /\ i + Len(p) - 1 <= Len(s)
    /\ \A k \in 1..Len(p) : s[i + k - 1] = p[k]

startswith(s, p) == MatchAt(s, 1, p)

endswith(s, p) == Len(p) <= Len(s) /\ MatchAt(s, Len(s) - Len(p) + 1, p)

\* p in s
Contains(s, p) == \E i \in 1..(Len(s) + 1) : MatchAt(s, i, p)

\* number of non-overlapping occurrences, s.count(p), p non-empty
RECURSIVE CountFrom(_, _, _)
CountFrom(s, i, p) ==
    IF i > Len(s) THEN 0
    ELSE IF MatchAt(s, i, p) THEN 1 + CountFrom(s, i + Len(p), p)
    ELSE CountFrom(s, i + 1, p)

Count(s, p) == CountFrom(s, 1, p)

\* s.replace(old, new) for a non-empty old: left to right, non-overlapping
RECURSIVE ReplaceFrom(_, _, _, _)
ReplaceFrom(s, i, old, new) ==
    IF i > Len(s) THEN << >>
    ELSE IF MatchAt(s, i, old) THEN new \o ReplaceFrom(s, i + Len(old), old, new)
    ELSE <<s[i]>> \o ReplaceFrom(s, i + 1, old, new)

Replace(s, old, new) == ReplaceFrom(s, 1, old, new)

\* the sequences over alphabet A of length at most n
SeqsUpTo(A, n) == UNION {[1..k -> A] : k \in 0..n}

(***************************************************************************)
(* helpers.py: enums and base36.                                           *)
(***************************************************************************)
DebugLog_OFF == 0
DebugLog_ERROR == 1
DebugLog_VERBOSE == 128

CrlfFlag_Universal == 0
CrlfFlag_Linux == 1
CrlfFlag_Windows == 2
CrlfFlag_MacOSX == 3

LINUX_NEWLINE == <<"\n">>
WINDOWS_NEWLINE == <<"\r", "\n">>
MAC_NEWLINE == <<"\r">>

\* string.digits + string.ascii_uppercase
Base36Chars ==
    <<"0", "1", "2", "3", "4", "5", "6", "7", "8", "9",
      "A", "B", "C", "D", "E", "F", "G", "H", "I", "J", "K", "L", "M",
      "N", "O", "P", "Q", "R", "S", "T", "U", "V", "W", "X", "Y", "Z">>

\* the while loop of base36_encode: while not res or num > 0
RECURSIVE base36_loop(_, _)
base36_loop(num, res) ==
    IF res = << >> \/ num > 0
    THEN base36_loop(num \div 36, <<Base36Chars[(num % 36) + 1]>> \o res)
    ELSE res

base36_encode(num) == base36_loop(num, << >>)

(***************************************************************************)
(* The generators.  random.getrandbits draws from the random module's      *)
(* global generator, which the interpreter seeds from the operating system *)
(* at start-up; it is modelled as a full-period linear congruential        *)
(* generator on RandBits-bit values (the code draws 128 bits).             *)
(* uuid.UUID(int=x, version=4) overwrites the variant and version fields   *)
(* of x; in the 8-bit layout bits 7-6 are the version field (forced to 01) *)
(* and bits 3-2 the variant field (forced to 10).                          *)
(***************************************************************************)
RandMod == 256

NextRandom(g) == (5 * g + 3) % RandMod

UuidV4(x) == 64 + ((x \div 16) % 4) * 16 + 8 + (x % 4)

(***************************************************************************)
(* Nodes of the TexSoup tree.  type is "cmd" (TexCmd), "env" (TexEnv) or   *)
(* "text" (a text token); name is the name of a command or environment     *)
(* (the text of a token); args are the values of the arguments, in order;  *)
(* children are the contents of the node; id tells nodes apart.            *)
(***************************************************************************)
Node(type, name, args, children) ==
    [type |-> type, name |-> name, args |-> args, children |-> children]

Text(s) == Node("text", s, << >>, << >>)
Cmd(name, args) == Node("cmd", name, args, << >>)
Env(name, args, children) == Node("env", name, args, children)

\* str(arg) of a required argument
Braced(value) == <<"{">> \o value \o <<"}">>

RECURSIVE ArgsStr(_)
ArgsStr(args) ==
    IF args = << >> THEN << >> ELSE Braced(Head(args)) \o ArgsStr(Tail(args))

\* str(tex_code) of a command: its source text
CmdStr(node) == <<"\\">> \o node.name \o ArgsStr(node.args)

\* str.lower() on the letters the model uses
LowerChar(c) ==
    CASE c = "B" -> "b"
      [] c = "C" -> "c"
      [] c = "N" -> "n"
      [] c = "Z" -> "z"
      [] c = "U" -> "u"
      [] OTHER -> c

lower(s) == [k \in 1..Len(s) |-> LowerChar(s[k])]

\* core.py 200-202: lower-cased, one trailing star removed
NormalizedName(node) ==
    LET name == lower(node.name)
    IN  IF endswith(name, <<"*">>) THEN SubSeq(name, 1, Len(name) - 1) ELSE name

(***************************************************************************)
(* The translation tables of the engine (translation.json and              *)
(* latex_unicode_symbols.json): one accent sequence and one symbol.        *)
(***************************************************************************)
accents == [k \in {<<"\\", "'", "{", "e", "}">>} |-> <<"U+00E9">>]

unicodes == [k \in {<<"\\", "a">>} |-> <<"U+03B1">>]

\* core.py 248-249: exact match or prefix match against the accent keys
IsAccent(str) ==
    \/ str \in DOMAIN accents
    \/ \E accent \in DOMAIN accents : startswith(str, accent)

\* core.py 151-155
_latex_to_unicode(key) == unicodes[key]

(***************************************************************************)
(* _to_plain_text (core.py 195-268).  A call returns the text it produced, *)
(* the nodes as it left them (it removes arguments in place), the state of *)
(* the two generators, the exception it raised and the references it       *)
(* rendered.                                                               *)
(***************************************************************************)
Result(out, node, g, s, e, rf) ==
    [out |-> out, node |-> node, g |-> g, s |-> s, err |-> e, refs |-> rf]

UnknownEnvMarker(node) ==
    <<"\n", "#", "E", "r", "r", "o", "r", "!", " ", "U", "n", "k", "n", "o", "w", "n",
      " ", "L", "a", "T", "e", "X", " ", "e", "n", "v", "i", "r", "o", "n", "m", "e",
      "n", "t", ":", " ">> \o node.name \o <<".", "\n">>

UnknownCmdMarker(node) ==
    <<"\n", "#", "E", "r", "r", "o", "r", "!", " ", "U", "n", "k", "n", "o", "w", "n",
      " ", "L", "a", "T", "e", "X", " ", "c", "o", "m", "m", "a", "n", "d", ":", " ">>
      \o node.name \o <<".", "\n">>

\* RenderUnknown with the test of the debug mode inverted
RenderUnknown_Inverted(node, marker, eng, g, s) ==
    IF eng.flags = << >> THEN Result(<< >>, node, g, s, "AttributeError", << >>)
    ELSE IF eng.flags[1] # DebugLog_ERROR THEN Result(marker, node, g, s, "none", << >>)
    ELSE Result(<< >>, node, g, s, "none", << >>)

\* core.py 219-221 and 255-256: self.flags == DebugLog.ERROR, on a slot that
\* LaTeX.__init__ may have left unset
RenderUnknown(node, marker, eng, g, s) ==
    IF eng.flags = << >> THEN Result(<< >>, node, g, s, "AttributeError", << >>)
    ELSE IF eng.flags[1] = DebugLog_ERROR THEN Result(marker, node, g, s, "none", << >>)
    ELSE Result(<< >>, node, g, s, "none", << >>)

\* core.py 243-245: (a or b or c) is the first of the three lists that is not empty
DiscardNbrTable(f) ==
    IF f.latex_commands_to_discard_nbr # {} THEN f.latex_commands_to_discard_nbr
    ELSE IF f.ieee_commands_to_discard_nbr # {} THEN f.ieee_commands_to_discard_nbr
    ELSE f.latex_line_page_breakers

\* core.py 236-238: seeds self.random with the label, then draws from the random
\* module's global generator
RenderReference(node, name, g, s) ==
    IF node.args = << >> THEN Result(<< >>, node, g, s, "IndexError", << >>)
    ELSE LET label == node.args[1]
             g1 == NextRandom(g)
             uid == base36_encode(UuidV4(g1))
         IN  Result(name \o <<"U+2014">> \o uid, node, g1, <<label>>, "none",
                    <<[label |-> label, uid |-> uid]>>)

\* core.py 257-258: an argument is parsed again and rendered; the arguments of the
\* model hold text only, which TexSoup reads as text tokens
RECURSIVE RenderArgs(_)
RenderArgs(args) ==
    IF args = << >> THEN << >> ELSE Head(args) \o RenderArgs(Tail(args))

RECURSIVE RenderSeq(_, _, _, _, _)
RECURSIVE RenderNode(_, _, _, _)

\* the for loop of core.py 198 over seq from position i; onlyExpr is the walk
\* over tex_code.children, which holds the commands and environments only
RenderSeq(seq, i, onlyExpr, eng, acc) ==
    IF i > Len(seq) \/ acc.err # "none" THEN acc
    ELSE IF onlyExpr /\ seq[i].type = "text" THEN RenderSeq(seq, i + 1, onlyExpr, eng, acc)
    ELSE LET r == RenderNode(seq[i], eng, acc.g, acc.s)
         IN  RenderSeq(seq, i + 1, onlyExpr, eng,
                 Result(acc.out \o r.out, [acc.node EXCEPT ![i] = r.node],
                        r.g, r.s, r.err, acc.refs \o r.refs))

RenderEnv(node, eng, g, s) ==
    LET name == NormalizedName(node)
        f == eng.filters
    IN  IF name \in f.latex_env_to_extract
        THEN LET cleared == IF Len(node.args) >= 1 THEN [node EXCEPT !.args = << >>]
                            ELSE node
                 r == RenderSeq(cleared.children, 1, FALSE, eng,
                                Result(<< >>, cleared.children, g, s, "none", << >>))
             IN  Result(r.out, [cleared EXCEPT !.children = r.node], r.g, r.s, r.err, r.refs)
        ELSE IF name \in f.latex_env_to_extract_lists
        THEN LET r == RenderSeq(node.children, 1, TRUE, eng,
                                Result(<< >>, node.children, g, s, "none", << >>))
             IN  Result(r.out, [node EXCEPT !.children = r.node], r.g, r.s, r.err, r.refs)
        ELSE IF name \in f.latex_env_to_discard_nbr
        THEN Result(IF name = <<"$">> THEN <<"@">> ELSE <<"\n", "\n">>,
                    node, g, s, "none", << >>)
        ELSE RenderUnknown(node, UnknownEnvMarker(node), eng, g, s)

\* RenderCmd without the removal of the first of several arguments
RenderCmd_KeepFirst(node, eng, g, s) ==
    LET name == NormalizedName(node)
        f == eng.filters
    IN  IF name \in f.latex_commands_to_extract
        THEN IF Len(node.args) = 0
             THEN LET r == RenderSeq(node.children, 1, FALSE, eng,
                                     Result(<< >>, node.children, g, s, "none", << >>))
                  IN  Result(r.out, [node EXCEPT !.children = r.node],
                             r.g, r.s, r.err, r.refs)
             ELSE LET kept == node.args
                  IN  Result(RenderArgs(kept), [node EXCEPT !.args = kept],
                             g, s, "none", << >>)
        ELSE IF name \in f.latex_references_to_extract
        THEN RenderReference(node, name, g, s)
        ELSE IF name \in f.latex_commands_to_discard_inline
        THEN Result(<<" ">>, node, g, s, "none", << >>)
        ELSE IF name \in DiscardNbrTable(f)
        THEN Result(<<"\n">>, node, g, s, "none", << >>)
        ELSE IF IsAccent(CmdStr(node))
        THEN Result(CmdStr(node), node, g, s, "none", << >>)
        ELSE IF CmdStr(node) \in DOMAIN unicodes
        THEN Result(_latex_to_unicode(CmdStr(node)), node, g, s, "none", << >>)
        ELSE RenderUnknown(node, UnknownCmdMarker(node), eng, g, s)

RenderCmd(node, eng, g, s) ==
    LET name == NormalizedName(node)
        f == eng.filters
    IN  IF name \in f.latex_commands_to_extract
        THEN IF Len(node.args) = 0
             THEN LET r == RenderSeq(node.children, 1, FALSE, eng,
                                     Result(<< >>, node.children, g, s, "none", << >>))
                  IN  Result(r.out, [node EXCEPT !.children = r.node],
                             r.g, r.s, r.err, r.refs)
             ELSE LET kept == IF Len(node.args) > 1 THEN Tail(node.args) ELSE node.args
                  IN  Result(RenderArgs(kept), [node EXCEPT !.args = kept],
                             g, s, "none", << >>)
        ELSE IF name \in f.latex_references_to_extract
        THEN RenderReference(node, name, g, s)
        ELSE IF name \in f.latex_commands_to_discard_inline
        THEN Result(<<" ">>, node, g, s, "none", << >>)
        ELSE IF name \in DiscardNbrTable(f)
        THEN Result(<<"\n">>, node, g, s, "none", << >>)
        ELSE IF IsAccent(CmdStr(node))
        THEN Result(CmdStr(node), node, g, s, "none", << >>)
        ELSE IF CmdStr(node) \in DOMAIN unicodes
        THEN Result(_latex_to_unicode(CmdStr(node)), node, g, s, "none", << >>)
        ELSE RenderUnknown(node, UnknownCmdMarker(node), eng, g, s)

RenderNode(node, eng, g, s) ==
    IF node.type = "env" THEN RenderEnv(node, eng, g, s)
    ELSE IF node.type = "cmd" THEN RenderCmd(node, eng, g, s)
    ELSE Result(node.name, node, g, s, "none", << >>)

(***************************************************************************)
(* The documents and tables of the rendering specification.                *)
(***************************************************************************)
\* filters2.yaml, with the three discard-with-newline tables given
Filters(nbr, ieee, breakers) ==
    [latex_env_to_extract |-> {<<"e">>},
     latex_env_to_extract_lists |-> {<<"l">>},
     latex_env_to_discard_nbr |-> {<<"$">>, <<"m">>},
     latex_commands_to_extract |-> {<<"b">>},
     latex_references_to_extract |-> {<<"c">>},
     latex_commands_to_discard_inline |-> {<<"d">>},
     latex_commands_to_discard_nbr |-> nbr,
     ieee_commands_to_discard_nbr |-> ieee,
     latex_line_page_breakers |-> breakers]

FilterChoices ==
    {Filters(nbr, ieee, breakers) :
        nbr \in {{}, {<<"n">>}}, ieee \in {{}, {<<"i">>}}, breakers \in {{<<"p">>}}}

\* the flags argument: a plain integer (the default 0x0) or a DebugLog member
FlagsArgs ==
    {[isDebugLog |-> FALSE, value |-> 0],
     [isDebugLog |-> TRUE, value |-> DebugLog_OFF],
     [isDebugLog |-> TRUE, value |-> DebugLog_ERROR],
     [isDebugLog |-> TRUE, value |-> DebugLog_VERBOSE]}

RenderMenu ==
    {Text(<<"t">>),
     Cmd(<<"z">>, << >>),
     Cmd(<<"Z", "*">>, <<<<"t">>>>),
     Cmd(<<"c">>, <<<<"k">>>>),
     Cmd(<<"C">>, <<<<"j">>>>),
     Cmd(<<"n">>, << >>),
     Cmd(<<"i">>, << >>),
     Cmd(<<"p">>, << >>),
     Cmd(<<"'">>, <<<<"e">>>>),
     Cmd(<<"a">>, << >>),
     Env(<<"u">>, << >>, <<Text(<<"t">>)>>),
     Env(<<"e">>, <<<<"o">>>>, <<Text(<<"t">>), Cmd(<<"z">>, << >>)>>)}

RenderDocs == SeqsUpTo(RenderMenu, MaxNodes)

\* the states of the global generator after the interpreter seeded it
Seeds == {0, 7}

Engine == [flags |-> flags, filters |-> filters]

(***************************************************************************)
(* Regular expressions and string methods of the text steps, computed      *)
(* character by character (re.sub: leftmost match, greedy, no overlap).    *)
(***************************************************************************)
\* the first position from i on whose character is not c (Len(s) + 1 if none)
RECURSIVE RunEnd(_, _, _)
RunEnd(s, i, c) ==
    IF i > Len(s) \/ s[i] # c THEN i ELSE RunEnd(s, i + 1, c)

\* the first position from i on whose character is c (Len(s) + 1 if none)
RECURSIVE FirstOf(_, _, _)
FirstOf(s, i, c) ==
    IF i > Len(s) \/ s[i] = c THEN i ELSE FirstOf(s, i + 1, c)

\* re.sub(c{min,}, new, s): every maximal run of c of length min or more
RECURSIVE SubRuns(_, _, _, _, _)
SubRuns(s, i, c, min, new) ==
    IF i > Len(s) THEN << >>
    ELSE IF s[i] = c
    THEN LET e == RunEnd(s, i, c)
         IN  (IF e - i >= min THEN new ELSE SubSeq(s, i, e - 1))
                 \o SubRuns(s, e, c, min, new)
    ELSE <<s[i]>> \o SubRuns(s, i + 1, c, min, new)

\* the characters that are not \w, among those the model uses
NonWordChars ==
    {" ", "\t", "\n", "\r", ".", "-", "@", "$", "#", "%", "~", "U+0060", "'", "\"",
     "\\", "{", "}", "[", "]", "(", ")", ",", ":", "!", "*", "U+2014", "U+2013"}

IsWordChar(c) == c \notin NonWordChars

\* the class [\w\.-]
IsAddrChar(c) == IsWordChar(c) \/ c \in {".", "-"}

RECURSIVE WordRunEnd(_, _)
WordRunEnd(s, i) ==
    IF i > Len(s) \/ ~IsWordChar(s[i]) THEN i ELSE WordRunEnd(s, i + 1)

RECURSIVE AddrRunEnd(_, _)
AddrRunEnd(s, i) ==
    IF i > Len(s) \/ ~IsAddrChar(s[i]) THEN i ELSE AddrRunEnd(s, i + 1)

\* helpers.py 21, REGEX_EMAIL_ADDRESS = [\w\.-]+@[\w\.-]+\.\w+ : the position
\* after the match that starts at i, 0 if there is none. The first class runs up
\* to the '@'; the second, greedy, gives back characters down to its last '.'
\* that a word character follows.
EmailEnd(s, i) ==
    LET a == AddrRunEnd(s, i)
    IN  IF a = i \/ a > Len(s) \/ s[a] # "@" THEN 0
        ELSE LET b == AddrRunEnd(s, a + 1)
                 dots == {p \in (a + 2)..(b - 1) :
                             s[p] = "." /\ p + 1 <= Len(s) /\ IsWordChar(s[p + 1])}
             IN  IF dots = {} THEN 0
                 ELSE WordRunEnd(s, 1 + CHOOSE p \in dots : \A q \in dots : q <= p)

EmailPlaceholder == <<"[", "e", "m", "a", "i", "l", "]">>

\* core.py 141: re.sub(REGEX_EMAIL_ADDRESS, '[email]', text)
RECURSIVE SubEmail(_, _)
SubEmail(s, i) ==
    IF i > Len(s) THEN << >>
    ELSE IF EmailEnd(s, i) > 0 THEN EmailPlaceholder \o SubEmail(s, EmailEnd(s, i))
    ELSE <<s[i]>> \o SubEmail(s, i + 1)

\* core.py 128: the words of SHORTHANDS
ShorthandWords ==
    {<<"E", "q">>, <<"E", "q", "s">>, <<"F", "i", "g">>,
     <<"F", "i", "g", "u", "r", "e">>, <<"R", "e", "f">>, <<"R", "e", "f", "s">>,
     <<"S", "e", "c">>}

\* s is one or more of the words in a row
RECURSIVE IsShorthandRun(_)
IsShorthandRun(s) ==
    \E w \in ShorthandWords :
        /\ startswith(s, w)
        /\ Len(s) = Len(w) \/ IsShorthandRun(From(s, Len(w) + 1))

\* core.py 128, SHORTHANDS = (Eq|Eqs|Fig|Figure|Ref|Refs|Sec)+\.+[\~]? : the
\* position after the match that starts at i, 0 if there is none
ShorthandEnd(s, i) ==
    LET d == FirstOf(s, i, ".")
    IN  IF d > Len(s) \/ d = i \/ ~IsShorthandRun(SubSeq(s, i, d - 1)) THEN 0
        ELSE LET e == RunEnd(s, d, ".")
             IN  IF e <= Len(s) /\ s[e] = "~" THEN e + 1 ELSE e

\* core.py 133: re.sub(SHORTHANDS, ' ', text)
RECURSIVE SubShorthands(_, _)
SubShorthands(s, i) ==
    IF i > Len(s) THEN << >>
    ELSE IF ShorthandEnd(s, i) > 0 THEN <<" ">> \o SubShorthands(s, ShorthandEnd(s, i))
    ELSE <<s[i]>> \o SubShorthands(s, i + 1)

\* core.py 46: re.sub(r'(?<!\\)%.*', "", text): from a '%' that no backslash
\* precedes to the end of the line
RECURSIVE SubComments(_, _)
SubComments(s, i) ==
    IF i > Len(s) THEN << >>
    ELSE IF s[i] = "%" /\ (i = 1 \/ s[i - 1] # "\\")
    THEN SubComments(s, FirstOf(s, i, "\n"))
    ELSE <<s[i]>> \o SubComments(s, i + 1)

\* core.py 48: re.sub(r'(?<!\\)\\ ', " ", text): a backslash and a blank that no
\* backslash precedes
RECURSIVE SubEscapedBlanks(_, _)
SubEscapedBlanks(s, i) ==
    IF i > Len(s) THEN << >>
    ELSE IF MatchAt(s, i, <<"\\", " ">>) /\ (i = 1 \/ s[i - 1] # "\\")
    THEN <<" ">> \o SubEscapedBlanks(s, i + 2)
    ELSE <<s[i]>> \o SubEscapedBlanks(s, i + 1)

\* str.strip(): the white space of the model
IsSpace(c) == c \in {" ", "\t", "\n", "\r"}

RECURSIVE lstrip(_)
lstrip(s) == IF s # << >> /\ IsSpace(Head(s)) THEN lstrip(Tail(s)) ELSE s

RECURSIVE rstrip(_)
rstrip(s) ==
    IF s # << >> /\ IsSpace(s[Len(s)]) THEN rstrip(SubSeq(s, 1, Len(s) - 1)) ELSE s

\* strip that leaves the trailing white space
strip_LeadingOnly(s) == lstrip(s)

strip(s) == rstrip(lstrip(s))

\* the position after the line that starts at i, its line break included
\* ("\n", "\r\n" or "\r")
RECURSIVE LineEnd(_, _)
LineEnd(s, i) ==
    IF i > Len(s) THEN i
    ELSE IF MatchAt(s, i, <<"\r", "\n">>) THEN i + 2
    ELSE IF s[i] \in {"\n", "\r"} THEN i + 1
    ELSE LineEnd(s, i + 1)

\* str.splitlines(True) from position i on
RECURSIVE splitlines(_, _)
splitlines(s, i) ==
    IF i > Len(s) THEN << >>
    ELSE <<SubSeq(s, i, LineEnd(s, i) - 1)>> \o splitlines(s, LineEnd(s, i))

\* '\n'.join(line.strip() for line in lines)
RECURSIVE JoinStripped(_)
JoinStripped(lines) ==
    IF lines = << >> THEN << >>
    ELSE IF Len(lines) = 1 THEN strip(lines[1])
    ELSE strip(lines[1]) \o <<"\n">> \o JoinStripped(Tail(lines))

\* one ([ \t]*\n) from position i: the position after it, 0 if there is none
RECURSIVE BlankLineEnd(_, _)
BlankLineEnd(s, i) ==
    IF i > Len(s) THEN 0
    ELSE IF s[i] = "\n" THEN i + 1
    ELSE IF s[i] \in {" ", "\t"} THEN BlankLineEnd(s, i + 1)
    ELSE 0

\* the greedy repetition of ([ \t]*\n) from position i: <<position after, count>>
RECURSIVE BlankLines(_, _, _)
BlankLines(s, i, n) ==
    IF BlankLineEnd(s, i) = 0 THEN <<i, n>>
    ELSE BlankLines(s, BlankLineEnd(s, i), n + 1)

\* helpers.py 159: re.sub(r'([ \t]*\n){3,}', r'\n\n', text)
RECURSIVE SubBlankLines(_, _)
SubBlankLines(s, i) ==
    IF i > Len(s) THEN << >>
    ELSE IF BlankLines(s, i, 0)[2] >= 3
    THEN <<"\n", "\n">> \o SubBlankLines(s, BlankLines(s, i, 0)[1])
    ELSE <<s[i]>> \o SubBlankLines(s, i + 1)

(***************************************************************************)
(* The text functions of helpers.py and the string steps of core.py.       *)
(***************************************************************************)
\* normalize_linebreaks without the replacement of the bare carriage returns
normalize_linebreaks_KeepCR(t, f) ==
    LET unix == Replace(t, WINDOWS_NEWLINE, LINUX_NEWLINE)
    IN  IF f = CrlfFlag_Windows THEN Replace(unix, LINUX_NEWLINE, WINDOWS_NEWLINE)
        ELSE IF f = CrlfFlag_MacOSX THEN Replace(unix, LINUX_NEWLINE, MAC_NEWLINE)
        ELSE unix

\* helpers.py 174-188
normalize_linebreaks(t, f) ==
    LET unix == Replace(Replace(t, WINDOWS_NEWLINE, LINUX_NEWLINE),
                        MAC_NEWLINE, LINUX_NEWLINE)
    IN  IF f = CrlfFlag_Windows THEN Replace(unix, LINUX_NEWLINE, WINDOWS_NEWLINE)
        ELSE IF f = CrlfFlag_MacOSX THEN Replace(unix, LINUX_NEWLINE, MAC_NEWLINE)
        ELSE unix

Markup_LaTeX == 0

\* helpers.py 146-172, with dedent = True
normalize(t, markup) ==
    LET t1 == IF markup = Markup_LaTeX
              THEN LET a == Replace(t, <<"(", " ">>, <<"(">>)
                       b == Replace(a, <<" ", ")">>, <<")">>)
                       c == Replace(b, <<" ", ",">>, <<",">>)
                       d == Replace(c, <<" ", ".">>, <<".">>)
                       e == Replace(d, <<" ", " ", " ">>, <<" ">>)
                       f == SubBlankLines(e, 1)
                   IN  Replace(f, <<"\\", "n", "\\", "n">>, <<"\n">>)
              ELSE t
    IN  strip(JoinStripped(splitlines(t1, 1)))

\* core.py 42-58
preprocess(raw) ==
    SubEscapedBlanks(SubRuns(SubComments(raw, 1), 1, "@", 1, <<" ">>), 1)

\* TexSoup(s) of a string without markup: one text token, no node for an empty
\* string
TexSoup(s) == IF s = << >> THEN << >> ELSE <<Text(s)>>

\* uuid.uuid4(): 128 bits from the operating system, version and variant forced
Uuid4Values == {UuidV4(x) : x \in 0..(RandMod - 1)}

\* core.py 119-124: the loop walks the string it was given; the first '@' it
\* meets replaces every '@' of the text by the token drawn for it, and the
\* tokens drawn for the later ones find nothing left to replace
_attobase36(t, uid) ==
    IF Contains(t, <<"@">>) THEN Replace(t, <<"@">>, <<"$">> \o base36_encode(uid))
    ELSE t

\* core.py 100-106: each key of the table found in the text is replaced
RECURSIVE TranslateKeys(_, _)
TranslateKeys(t, keys) ==
    IF keys = {} THEN t
    ELSE LET f == CHOOSE k \in keys : TRUE
         IN  TranslateKeys(Replace(t, f, accents[f]), keys \ {f})

translate_accents(t) == TranslateKeys(t, DOMAIN accents)

\* core.py 126-142
_generic_sanitization(t) ==
    LET t1 == Replace(t, <<"U+0060", "U+0060">>, << >>)
        t2 == Replace(t1, <<"\"">>, << >>)
        t3 == Replace(t2, <<"'", "'">>, << >>)
        t4 == SubShorthands(t3, 1)
        t5 == Replace(t4, <<"\\">>, << >>)
        t6 == Replace(t5, <<"~">>, <<" ">>)
        t7 == SubRuns(t6, 1, "-", 2, << >>)
        t8 == SubRuns(t7, 1, "@", 1, << >>)
        t9 == Replace(t8, <<" ", ".">>, <<".">>)
        t10 == Replace(t9, <<"-", "-", "-">>, <<"U+2014">>)
        t11 == Replace(t10, <<"-", "-">>, <<"U+2013">>)
    IN  SubEmail(t11, 1)

(***************************************************************************)
(* The engine: construction and to_text.                                   *)
(***************************************************************************)
\* core.py 26-40: LaTeX(raw, flags); raw is the source of doc
Construct ==
    /\ pc = "new"
    /\ text' = << >>
    /\ srandom' = << >>
    /\ flags' = IF flagsArg.isDebugLog THEN <<flagsArg.value>> ELSE << >>
    /\ tex' = doc
    /\ pc' = "constructed"
    /\ UNCHANGED <<filters, idx, err, grandom, refs, runs, doc, flagsArg, it, last, src, crlf, arg,
                   script, source, destination, procs, argv,
                   given, encoded, decoded>>

\* core.py 60-80: to_text(arg) up to the start of the loop of _to_plain_text. The
\* argument is preprocessed and parsed only if the engine holds no tree yet; the
\* documents of the specifications define no macros, and _preprocess_macros
\* returns their tree as it is
BeginRender ==
    /\ pc = "constructed"
    /\ tex' = IF tex = << >> THEN TexSoup(preprocess(arg)) ELSE tex
    /\ idx' = 1
    /\ text' = << >>
    /\ pc' = "render"
    /\ UNCHANGED <<flags, filters, err, grandom, srandom, refs, runs, doc, flagsArg,
                   it, last, src, crlf, arg,
                   script, source, destination, procs, argv,
                   given, encoded, decoded>>

\* core.py 198-266: one iteration of the loop over the top-level nodes
RenderStep ==
    /\ pc = "render"
    /\ idx <= Len(tex)
    /\ LET r == RenderNode(tex[idx], Engine, grandom, srandom)
       IN  /\ tex' = [tex EXCEPT ![idx] = r.node]
           /\ grandom' = r.g
           /\ srandom' = r.s
           /\ refs' = refs \o r.refs
           /\ err' = r.err
           /\ IF r.err = "none"
              THEN /\ text' = text \o r.out
                   /\ idx' = idx + 1
                   /\ pc' = "render"
              ELSE /\ pc' = "raised"
                   /\ UNCHANGED <<text, idx>>
    /\ UNCHANGED <<flags, filters, runs, doc, flagsArg, it, last, src, crlf, arg,
                   script, source, destination, procs, argv,
                   given, encoded, decoded>>

\* core.py 268: the loop is over, _to_plain_text returns
RenderDone ==
    /\ pc = "render"
    /\ idx > Len(tex)
    /\ pc' = "rendered"
    /\ UNCHANGED <<flags, filters, tex, idx, text, err, grandom, srandom, refs, runs,
                   doc, flagsArg, it, last, src, crlf, arg,
                   script, source, destination, procs, argv,
                   given, encoded, decoded>>

\* detex.py 74-104: the batch loop builds a new engine for the next document (here
\* the same document again), in the same process
NextDocument ==
    /\ pc \in {"rendered", "raised"}
    /\ runs < MaxRuns
    /\ runs' = runs + 1
    /\ pc' = "new"
    /\ err' = "none"
    /\ flags' = << >>
    /\ tex' = << >>
    /\ idx' = 0
    /\ text' = << >>
    /\ srandom' = << >>
    /\ UNCHANGED <<filters, grandom, refs, doc, flagsArg, it, last, src, crlf, arg,
                   script, source, destination, procs, argv,
                   given, encoded, decoded>>

\* a separate run of the program: a new process, whose global generator the
\* interpreter seeds again
NextProcess ==
    /\ pc \in {"rendered", "raised"}
    /\ runs < MaxRuns
    /\ runs' = runs + 1
    /\ grandom' \in Seeds
    /\ pc' = "new"
    /\ err' = "none"
    /\ flags' = << >>
    /\ tex' = << >>
    /\ idx' = 0
    /\ text' = << >>
    /\ srandom' = << >>
    /\ UNCHANGED <<filters, refs, doc, flagsArg, it, last, src, crlf, arg,
                   script, source, destination, procs, argv,
                   given, encoded, decoded>>

InitRender ==
    /\ pc = "new"
    /\ flags = << >>
    /\ filters \in FilterChoices
    /\ tex = << >>
    /\ idx = 0
    /\ text = << >>
    /\ err = "none"
    /\ grandom \in Seeds
    /\ srandom = << >>
    /\ refs = << >>
    /\ runs = 1
    /\ doc \in RenderDocs
    /\ flagsArg \in FlagsArgs
    /\ it = 0
    /\ last = << >>
    /\ src = << >>
    /\ crlf = 0
    /\ arg = << >>
    /\ script = "none"
    /\ source = << >>
    /\ destination = << >>
    /\ procs = << >>
    /\ argv = << >>
    /\ given = 0
    /\ encoded = << >>
    /\ decoded = 0

NextRender ==
    \/ Construct
    \/ BeginRender
    \/ RenderStep
    \/ RenderDone
    \/ NextDocument
    \/ NextProcess

SpecRender == InitRender /\ [][NextRender]_vars

(***************************************************************************)
(* Claims about the renderer (SpecRender).                                 *)
(***************************************************************************)
AllTables(f) ==
    f.latex_env_to_extract \cup f.latex_env_to_extract_lists
        \cup f.latex_env_to_discard_nbr \cup f.latex_commands_to_extract
        \cup f.latex_references_to_extract \cup f.latex_commands_to_discard_inline
        \cup f.latex_commands_to_discard_nbr \cup f.ieee_commands_to_discard_nbr
        \cup f.latex_line_page_breakers

\* a command or environment in no classification table whose source text matches
\* no accent key and no symbol key
IsUnknownConstruct(node) ==
    /\ node.type \in {"cmd", "env"}
    /\ NormalizedName(node) \notin AllTables(filters)
    /\ node.type = "cmd" =>
          /\ ~IsAccent(CmdStr(node))
          /\ CmdStr(node) \notin DOMAIN unicodes

\* the loop of _to_plain_text is about to handle a top-level node
AtNode == pc = "render" /\ idx <= Len(tex)

\* C1: rendering an extract-reference command gives the same identifier for the
\* same label every time: any two references rendered so far, in this run or in
\* an earlier one, that have the same label have the same identifier.
C1_SameLabelSameIdentifier ==
    \A i, j \in 1..Len(refs) :
        refs[i].label = refs[j].label => refs[i].uid = refs[j].uid

\* C2: for an unknown command or environment, with debug = Off the renderer
\* appends nothing, with debug = ReportUnknown it appends a marker that contains
\* the name of the construct, and in both cases the loop goes on to the next node.
C2_UnknownConstruct ==
    [][(AtNode /\ IsUnknownConstruct(tex[idx]) /\ flags # << >>
            /\ flags[1] \in {DebugLog_OFF, DebugLog_ERROR})
        => /\ pc' = "render"
           /\ idx' = idx + 1
           /\ err' = "none"
           /\ flags[1] = DebugLog_OFF => text' = text
           /\ flags[1] = DebugLog_ERROR =>
                 /\ Len(text') > Len(text)
                 /\ SubSeq(text', 1, Len(text)) = text
                 /\ Contains(From(text', Len(text) + 1), tex[idx].name)
                 /\ startswith(From(text', Len(text) + 1),
                               <<"\n", "#", "E", "r", "r", "o", "r", "!">>)]_vars

\* C2 witness: an unknown command with a star was reported under ReportUnknown and
\* the loop went on
C2_Witness ==
    /\ pc = "render"
    /\ idx = 2
    /\ flags = <<DebugLog_ERROR>>
    /\ doc[1] = Cmd(<<"Z", "*">>, <<<<"t">>>>)
    /\ Contains(text, <<":", " ", "Z", "*", ".", "\n">>)

\* C3: whatever the flags argument of the constructor, the debug mode is defined
\* after construction and rendering never raises on an unknown construct.
C3_UnknownNeverFatal ==
    /\ pc \in {"constructed", "render", "rendered"} => flags # << >>
    /\ err # "AttributeError"

\* C7: a command whose normalized name is in one of the three discard-with-newline
\* tables, and in no table checked before them, is rendered as exactly one "\n"
\* (stated with the debug mode set).
C7_DiscardNewlineUnion ==
    [][(AtNode /\ tex[idx].type = "cmd" /\ flags # << >>
            /\ NormalizedName(tex[idx]) \in
                  (filters.latex_commands_to_discard_nbr
                     \cup filters.ieee_commands_to_discard_nbr
                     \cup filters.latex_line_page_breakers)
            /\ NormalizedName(tex[idx]) \notin
                  (filters.latex_commands_to_extract
                     \cup filters.latex_references_to_extract
                     \cup filters.latex_commands_to_discard_inline))
        => text' = text \o <<"\n">>]_vars

(***************************************************************************)
(* _preprocess_macros (core.py 165-193) on the top-level nodes of the      *)
(* tree.  A usage that was expanded is a node of type "frag": the tree     *)
(* TexSoup(new_str) spliced in its place, named by its source new_str.     *)
(***************************************************************************)
Frag(new_str) == Node("frag", new_str, << >>, << >>)

\* core.py 168-169: the names _find_all_multi_attr_ex looks for
DefinitionNames ==
    {<<"newcommand">>, <<"newcommand", "*">>,
     <<"renewcommand">>, <<"renewcommand", "*">>,
     <<"providecommand">>, <<"providecommand", "*">>}

\* core.py 160-163: the node matches one of the names
IsDefinition(node) == node.type = "cmd" /\ node.name \in DefinitionNames

IsDigit(c) == \E d \in 0..9 : Base36Chars[d + 1] = c

DigitValue(c) == CHOOSE d \in 0..9 : Base36Chars[d + 1] = c

\* int(s) accepts s: a non-empty run of decimal digits (signs, blanks and
\* underscores, which int() also reads, do not occur in the model)
IsIntLiteral(s) == s # << >> /\ \A k \in 1..Len(s) : IsDigit(s[k])

\* int(s) of a run of digits
RECURSIVE int(_)
int(s) ==
    IF s = << >> THEN 0
    ELSE 10 * int(SubSeq(s, 1, Len(s) - 1)) + DigitValue(s[Len(s)])

\* str(n) of a natural number
RECURSIVE str(_)
str(n) ==
    IF n < 10 THEN <<Base36Chars[n + 1]>>
    ELSE str(n \div 10) \o <<Base36Chars[(n % 10) + 1]>>

\* core.py 189-190: the placeholders are replaced one after the other, each in
\* the string the replacements before it produced
RECURSIVE ExpandFrom(_, _, _, _)
ExpandFrom(new_str, args, k, nargs) ==
    IF k >= nargs THEN new_str
    ELSE ExpandFrom(Replace(new_str, <<"#">> \o str(k + 1), Braced(args[k + 1])),
                    args, k + 1, nargs)

\* core.py 184-191: the source of the node that replaces a usage
Expand(replace_str, args, nargs) == ExpandFrom(replace_str, args, 0, nargs)

\* UsageMatches without the test of the number of arguments
UsageMatches_AnyArity(usage, command, nargs) ==
    usage.type = "cmd" /\ usage.name = command /\ Len(usage.args) >= nargs

\* core.py 183-186: find_all(command) yields the nodes named command; the loop
\* skips those whose number of arguments is not nargs
UsageMatches(usage, command, nargs) ==
    usage.type = "cmd" /\ usage.name = command /\ Len(usage.args) = nargs

\* core.py 183-192: the loop over the usages
ReplaceUsages(tree, command, nargs, replace_str) ==
    [m \in 1..Len(tree) |->
        IF UsageMatches(tree[m], command, nargs)
        THEN Frag(Expand(replace_str, tree[m].args, nargs))
        ELSE tree[m]]

\* core.py 174: tex_tree.remove(node), node being the j-th top-level node
RemoveAt(tree, j) == SubSeq(tree, 1, j - 1) \o SubSeq(tree, j + 1, Len(tree))

\* core.py 167: the next node the generator yields, from cursor c on (0 if none)
NextDefinition(tree, c) ==
    IF \E j \in c..Len(tree) : IsDefinition(tree[j])
    THEN CHOOSE j \in c..Len(tree) :
             /\ IsDefinition(tree[j])
             /\ \A h \in c..(j - 1) : ~IsDefinition(tree[h])
    ELSE 0

\* core.py 170-192: the body of the loop for the definition at position j. It
\* returns the tree, the exception raised, and whether the node was removed.
ProcessDefinition(tree, j) ==
    LET node == tree[j]
        removed == RemoveAt(tree, j)
    IN  IF ~(Len(node.args) > 0)
        THEN [tree |-> tree, err |-> "none", removed |-> FALSE]
        ELSE LET command == Tail(node.args[1])
             IN  IF Len(node.args) = 2
                 THEN [tree |-> ReplaceUsages(removed, command, 0, node.args[2]),
                       err |-> "none", removed |-> TRUE]
                 ELSE IF Len(node.args) < 2
                 THEN [tree |-> removed, err |-> "IndexError", removed |-> TRUE]
                 ELSE IF ~IsIntLiteral(node.args[2])
                 THEN [tree |-> removed, err |-> "ValueError", removed |-> TRUE]
                 ELSE [tree |-> ReplaceUsages(removed, command, int(node.args[2]),
                                              node.args[3]),
                       err |-> "none", removed |-> TRUE]

\* core.py 77: to_text calls _preprocess_macros on the tree
BeginMacros ==
    /\ pc = "constructed"
    /\ it' = 1
    /\ pc' = "macros"
    /\ UNCHANGED <<flags, filters, tex, idx, text, err, grandom, srandom, refs, runs,
                   doc, flagsArg, last, src, crlf, arg,
                   script, source, destination, procs, argv,
                   given, encoded, decoded>>

\* core.py 167-192: one iteration of the for loop. The generator walks the
\* contents of the tree lazily while the body removes the node from them: after a
\* removal the walk goes on either with the node that followed the removed one
\* (a walk over a copy) or with the one after it (a walk over the list itself,
\* whose later nodes moved up by one).
MacroStep ==
    /\ pc = "macros"
    /\ NextDefinition(tex, it) # 0
    /\ LET j == NextDefinition(tex, it)
           r == ProcessDefinition(tex, j)
       IN  /\ tex' = r.tree
           /\ err' = r.err
           /\ last' = <<[node |-> tex[j], pos |-> j, before |-> tex]>>
           /\ pc' = IF r.err = "none" THEN "macros" ELSE "raised"
           /\ \/ it' = j + 1
              \/ r.removed /\ it' = j
    /\ UNCHANGED <<flags, filters, idx, text, grandom, srandom, refs, runs, doc,
                   flagsArg, src, crlf, arg,
                   script, source, destination, procs, argv,
                   given, encoded, decoded>>

\* core.py 193: the generator is exhausted, _preprocess_macros returns the tree
MacrosDone ==
    /\ pc = "macros"
    /\ NextDefinition(tex, it) = 0
    /\ pc' = "expanded"
    /\ UNCHANGED <<flags, filters, tex, idx, text, err, grandom, srandom, refs, runs,
                   doc, flagsArg, it, last, src, crlf, arg,
                   script, source, destination, procs, argv,
                   given, encoded, decoded>>

NameF == <<"\\", "f">>

MacroMenu ==
    {Text(<<"t">>),
     Cmd(<<"newcommand">>, <<NameF, <<"2">>, <<"#", "1", "#", "2">>>>),
     Cmd(<<"renewcommand", "*">>, <<NameF, <<"x">>>>),
     Cmd(<<"providecommand">>, <<NameF>>),
     Cmd(<<"newcommand">>, <<NameF, <<"n">>, <<"x">>>>),
     Cmd(<<"newcommand">>, << >>),
     Cmd(<<"f">>, <<<<"a">>, <<"b">>>>),
     Cmd(<<"f">>, <<<<"#", "2">>, <<"b">>>>),
     Cmd(<<"f">>, <<<<"a">>>>),
     Cmd(<<"f">>, << >>)}

MacroDocs == SeqsUpTo(MacroMenu, MaxMacroNodes)

InitMacros ==
    /\ pc = "new"
    /\ flags = << >>
    /\ filters = Filters({}, {}, {})
    /\ tex = << >>
    /\ idx = 0
    /\ text = << >>
    /\ err = "none"
    /\ grandom = 0
    /\ srandom = << >>
    /\ refs = << >>
    /\ runs = 1
    /\ doc \in MacroDocs
    /\ flagsArg = [isDebugLog |-> TRUE, value |-> DebugLog_OFF]
    /\ it = 0
    /\ last = << >>
    /\ src = << >>
    /\ crlf = 0
    /\ arg = << >>
    /\ script = "none"
    /\ source = << >>
    /\ destination = << >>
    /\ procs = << >>
    /\ argv = << >>
    /\ given = 0
    /\ encoded = << >>
    /\ decoded = 0

NextMacros ==
    \/ Construct
    \/ BeginMacros
    \/ MacroStep
    \/ MacrosDone

SpecMacros == InitMacros /\ [][NextMacros]_vars

(***************************************************************************)
(* Claims about the macro preprocessor (SpecMacros).  last holds the       *)
(* definition the latest iteration handled, its position and the tree      *)
(* before the iteration; tex is the tree after it.                         *)
(***************************************************************************)
\* a definition with two arguments, or with three or more whose second is an
\* integer literal
WellFormed(d) ==
    \/ Len(d.args) = 2
    \/ Len(d.args) >= 3 /\ IsIntLiteral(d.args[2])

DeclaredName(d) == Tail(d.args[1])

DeclaredArity(d) == IF Len(d.args) = 2 THEN 0 ELSE int(d.args[2])

Template(d) == IF Len(d.args) = 2 THEN d.args[2] ELSE d.args[3]

\* a usage of macro N with exactly n arguments
IsUsageOf(node, N, n) == node.type = "cmd" /\ node.name = N /\ Len(node.args) = n

\* T with each placeholder #k, 1 <= k <= n, replaced by the k-th argument in braces
RECURSIVE SubstFrom(_, _, _, _)
SubstFrom(T, i, args, n) ==
    IF i > Len(T) THEN << >>
    ELSE IF \E k \in 1..n : MatchAt(T, i, <<"#">> \o str(k))
    THEN LET k == CHOOSE h \in 1..n : MatchAt(T, i, <<"#">> \o str(h))
         IN  Braced(args[k]) \o SubstFrom(T, i + 1 + Len(str(k)), args, n)
    ELSE <<T[i]>> \o SubstFrom(T, i + 1, args, n)

Substituted(T, args, n) == SubstFrom(T, 1, args, n)

\* the node of tex that stands where node m of last[1].before stood
After(m) == tex[IF m < last[1].pos THEN m ELSE m - 1]

Others == (1..Len(last[1].before)) \ {last[1].pos}

\* C4: when a well-formed definition of N with arity n and template T has been
\* processed, the definition node is gone, every usage of N with exactly n
\* arguments has been replaced by T with each #k replaced by the k-th argument in
\* braces, and no usage of N with n arguments is left.
C4_MacroExpansion ==
    (last # << >> /\ WellFormed(last[1].node)) =>
        LET d == last[1].node
            before == last[1].before
        IN  /\ Len(tex) = Len(before) - 1
            /\ \A m \in Others :
                  IsUsageOf(before[m], DeclaredName(d), DeclaredArity(d)) =>
                      After(m) = Frag(Substituted(Template(d), before[m].args,
                                                  DeclaredArity(d)))
            /\ \A m \in 1..Len(tex) :
                  ~IsUsageOf(tex[m], DeclaredName(d), DeclaredArity(d))

\* C5: a malformed definition (no argument, one argument, or an arity that is not
\* an integer literal) is never fatal and leaves the tree as it was.
C5_MalformedNeverFatal ==
    /\ err \notin {"IndexError", "ValueError"}
    /\ (last # << >> /\ ~WellFormed(last[1].node)) => tex = last[1].before

MaxBreakText == 4

BreakAlphabet == {"a", "\n", "\r"}

\* helpers.py 174-188: a call of normalize_linebreaks(src, crlf)
NormalizeLinebreaks ==
    /\ pc = "call"
    /\ text' = normalize_linebreaks(src, crlf)
    /\ pc' = "returned"
    /\ UNCHANGED <<flags, filters, tex, idx, err, grandom, srandom, refs, runs,
                   doc, flagsArg, it, last, src, crlf, arg,
                   script, source, destination, procs, argv,
                   given, encoded, decoded>>

\* a second call, on the text the first one returned, with the same flag
NormalizeLinebreaksAgain ==
    /\ pc = "returned"
    /\ last' = <<text>>
    /\ text' = normalize_linebreaks(text, crlf)
    /\ pc' = "again"
    /\ UNCHANGED <<flags, filters, tex, idx, err, grandom, srandom, refs, runs,
                   doc, flagsArg, it, src, crlf, arg,
                   script, source, destination, procs, argv,
                   given, encoded, decoded>>

InitLinebreaks ==
    /\ pc = "call"
    /\ flags = << >>
    /\ filters = Filters({}, {}, {})
    /\ tex = << >>
    /\ idx = 0
    /\ text = << >>
    /\ err = "none"
    /\ grandom = 0
    /\ srandom = << >>
    /\ refs = << >>
    /\ runs = 1
    /\ doc = << >>
    /\ flagsArg = [isDebugLog |-> TRUE, value |-> DebugLog_OFF]
    /\ it = 0
    /\ last = << >>
    /\ src \in SeqsUpTo(BreakAlphabet, MaxBreakText)
    /\ crlf \in {CrlfFlag_Universal, CrlfFlag_Linux, CrlfFlag_Windows, CrlfFlag_MacOSX}
    /\ arg = << >>
    /\ script = "none"
    /\ source = << >>
    /\ destination = << >>
    /\ procs = << >>
    /\ argv = << >>
    /\ given = 0
    /\ encoded = << >>
    /\ decoded = 0

NextLinebreaks ==
    \/ NormalizeLinebreaks
    \/ NormalizeLinebreaksAgain

SpecLinebreaks == InitLinebreaks /\ [][NextLinebreaks]_vars

\* the line breaks of s from position i on: a CR LF pair is one break, any other
\* CR or LF is one break
RECURSIVE BreakCount(_, _)
BreakCount(s, i) ==
    IF i > Len(s) THEN 0
    ELSE IF MatchAt(s, i, WINDOWS_NEWLINE) THEN 1 + BreakCount(s, i + 2)
    ELSE IF s[i] \in {"\n", "\r"} THEN 1 + BreakCount(s, i + 1)
    ELSE BreakCount(s, i + 1)

TargetBreak(f) ==
    IF f = CrlfFlag_Windows THEN WINDOWS_NEWLINE
    ELSE IF f = CrlfFlag_MacOSX THEN MAC_NEWLINE
    ELSE LINUX_NEWLINE

\* every CR and LF of t belongs to a line break of the convention f
InConvention(t, f) ==
    LET rest == Replace(t, TargetBreak(f), << >>)
    IN  \A k \in 1..Len(rest) : rest[k] \notin {"\n", "\r"}

\* C8: for a text with any mix of LF, CR LF and CR and a target among Linux,
\* Windows and MacOSX, normalize_linebreaks returns a text with as many line
\* breaks, all of the target convention (Windows on "a\nb" gives "a\r\nb", Linux
\* on "a\r\nb" gives "a\nb"), and a second call with the same target returns its
\* argument.
C8_LinebreaksNormalized ==
    (pc \in {"returned", "again"}
        /\ crlf \in {CrlfFlag_Linux, CrlfFlag_Windows, CrlfFlag_MacOSX}) =>
        /\ Count(text, TargetBreak(crlf)) = BreakCount(src, 1)
        /\ InConvention(text, crlf)
        /\ pc = "again" => text = last[1]
        /\ (src = <<"a", "\n", "b">> /\ crlf = CrlfFlag_Windows)
              => text = <<"a", "\r", "\n", "b">>
        /\ (src = <<"a", "\r", "\n", "b">> /\ crlf = CrlfFlag_Linux)
              => text = <<"a", "\n", "b">>

\* C8 witness: a text with an LF, a CR and a CR LF was normalized to the Windows
\* convention, twice
C8_Witness ==
    /\ pc = "again"
    /\ src = <<"\n", "\r", "\r", "\n">>
    /\ crlf = CrlfFlag_Windows
    /\ text = <<"\r", "\n", "\r", "\n", "\r", "\n">>

(***************************************************************************)
(* to_text on a document of text: LaTeX(raw).to_text(), as the batch       *)
(* drivers call it, from the raw string to the returned text.              *)
(***************************************************************************)
MaxSrc == 5

SrcAlphabet == {"a", "-", "@", ".", " "}

\* core.py 26-40 and 73-75: the constructor preprocesses and parses a raw string
\* that is not empty; to_text does so for the empty one
ConstructFromRaw ==
    /\ pc = "new"
    /\ text' = << >>
    /\ srandom' = << >>
    /\ flags' = IF flagsArg.isDebugLog THEN <<flagsArg.value>> ELSE << >>
    /\ tex' = TexSoup(preprocess(src))
    /\ pc' = "constructed"
    /\ UNCHANGED <<filters, idx, err, grandom, refs, runs, doc, flagsArg, it,
                   last, src, crlf, arg,
                   script, source, destination, procs, argv,
                   given, encoded, decoded>>

\* core.py 83: self.text = self._attobase36(self.text)
AtToBase36 ==
    /\ pc = "rendered"
    /\ \E uid \in Uuid4Values : text' = _attobase36(text, uid)
    /\ pc' = "marked"
    /\ UNCHANGED <<flags, filters, tex, idx, err, grandom, srandom, refs, runs,
                   doc, flagsArg, it, last, src, crlf, arg,
                   script, source, destination, procs, argv,
                   given, encoded, decoded>>

\* core.py 86: self.text = normalize_linebreaks(self.text, CrlfFlag.Linux)
NormalizeUnix ==
    /\ pc = "marked"
    /\ text' = normalize_linebreaks(text, CrlfFlag_Linux)
    /\ pc' = "unix"
    /\ UNCHANGED <<flags, filters, tex, idx, err, grandom, srandom, refs, runs,
                   doc, flagsArg, it, last, src, crlf, arg,
                   script, source, destination, procs, argv,
                   given, encoded, decoded>>

\* core.py 89: self.text = self.translate_accents(self.text)
TranslateAccents ==
    /\ pc = "unix"
    /\ text' = translate_accents(text)
    /\ pc' = "accented"
    /\ UNCHANGED <<flags, filters, tex, idx, err, grandom, srandom, refs, runs,
                   doc, flagsArg, it, last, src, crlf, arg,
                   script, source, destination, procs, argv,
                   given, encoded, decoded>>

\* core.py 92: self.text = self._generic_sanitization(self.text)
GenericSanitization ==
    /\ pc = "accented"
    /\ last' = <<text>>
    /\ text' = _generic_sanitization(text)
    /\ pc' = "sanitized"
    /\ UNCHANGED <<flags, filters, tex, idx, err, grandom, srandom, refs, runs,
                   doc, flagsArg, it, src, crlf, arg,
                   script, source, destination, procs, argv,
                   given, encoded, decoded>>

\* core.py 95-99: format is True; to_text returns self.text
Normalize ==
    /\ pc = "sanitized"
    /\ text' = normalize(text, Markup_LaTeX)
    /\ pc' = "done"
    /\ UNCHANGED <<flags, filters, tex, idx, err, grandom, srandom, refs, runs,
                   doc, flagsArg, it, last, src, crlf, arg,
                   script, source, destination, procs, argv,
                   given, encoded, decoded>>

\* the text to_text returned is given, as raw string, to a new engine
ToTextOfOutput ==
    /\ pc = "done"
    /\ runs < MaxRuns
    /\ runs' = runs + 1
    /\ src' = text
    /\ pc' = "new"
    /\ flags' = << >>
    /\ tex' = << >>
    /\ idx' = 0
    /\ text' = << >>
    /\ srandom' = << >>
    /\ UNCHANGED <<filters, err, grandom, refs, doc, flagsArg, it, last, crlf,
                   arg,
                   script, source, destination, procs, argv,
                   given, encoded, decoded>>

InitToText ==
    /\ pc = "new"
    /\ flags = << >>
    /\ filters = Filters({}, {}, {<<"p">>})
    /\ tex = << >>
    /\ idx = 0
    /\ text = << >>
    /\ err = "none"
    /\ grandom = 0
    /\ srandom = << >>
    /\ refs = << >>
    /\ runs = 1
    /\ doc = << >>
    /\ flagsArg = [isDebugLog |-> TRUE, value |-> DebugLog_OFF]
    /\ it = 0
    /\ last = << >>
    /\ src \in SeqsUpTo(SrcAlphabet, MaxSrc)
    /\ crlf = CrlfFlag_Linux
    /\ arg = << >>
    /\ script = "none"
    /\ source = << >>
    /\ destination = << >>
    /\ procs = << >>
    /\ argv = << >>
    /\ given = 0
    /\ encoded = << >>
    /\ decoded = 0

NextToText ==
    \/ ConstructFromRaw
    \/ BeginRender
    \/ RenderStep
    \/ RenderDone
    \/ AtToBase36
    \/ NormalizeUnix
    \/ TranslateAccents
    \/ GenericSanitization
    \/ Normalize
    \/ ToTextOfOutput

SpecToText == InitToText /\ [][NextToText]_vars

EmDash == <<"U+2014">>

EnDash == <<"U+2013">>

\* t holds the dash character that its hyphens call for: an em dash if it has
\* "---", an em dash or an en dash if it has "--"
HasDashesOf(t, out) ==
    /\ Contains(t, <<"-", "-", "-">>) => Contains(out, EmDash)
    /\ Contains(t, <<"-", "-">>) => Contains(out, EmDash) \/ Contains(out, EnDash)

\* C9: the generic sanitization step turns the "---" of the rendered text into em
\* dashes and its "--" into en dashes (last holds the text the step was given),
\* so that the text to_text returns for a document whose text has "--" or "---"
\* has the dash character.
C9_DashConversion ==
    /\ pc \in {"sanitized", "done"} => HasDashesOf(last[1], text)
    /\ pc = "done" => HasDashesOf(src, text)

\* s has an address at position i: a local part of word characters, '@', and a
\* domain of word characters, a dot and a word character
IsAddressAt(s, i) ==
    LET a == WordRunEnd(s, i)
        b == WordRunEnd(s, a + 1)
    IN  /\ a > i /\ a <= Len(s) /\ s[a] = "@"
        /\ b > a + 1 /\ b < Len(s) /\ s[b] = "." /\ IsWordChar(s[b + 1])

HasEmail(s) == \E i \in 1..Len(s) : IsAddressAt(s, i)

\* C10: the text to_text returns for a document whose text has a substring of the
\* shape of an email address (local part, '@', domain with a dot) holds the
\* placeholder "[email]".
C10_EmailRedaction ==
    (pc = "done" /\ HasEmail(src)) => Contains(text, EmailPlaceholder)

\* C12: running to_text (formatting on, a new engine each time) on its own
\* output gives that output back: the raw string of every run after the first
\* is the text the run before returned, and the run returns it unchanged.
C12_PipelineIdempotent ==
    (pc = "done" /\ runs >= 2) => text = src

(***************************************************************************)
(* to_text on parsed documents: the constructor's tree, rendered (once or  *)
(* twice in a row) and taken through the text steps.                       *)
(***************************************************************************)
MaxDocNodes == 2

Section == <<"s", "e", "c", "t", "i", "o", "n">>

Textbf == <<"t", "e", "x", "t", "b", "f">>

\* filters2.yaml with section, textbf and b among the commands to extract
DocFilters ==
    [Filters({<<"n">>}, {}, {<<"p">>}) EXCEPT
        !.latex_commands_to_extract = {<<"b">>, Section, Textbf}]

\* "\section{Intro}\nHello \textbf{world}.\n" as TexSoup parses it
ExampleDoc ==
    <<Cmd(Section, <<<<"I", "n", "t", "r", "o">>>>),
      Text(<<"\n", "H", "e", "l", "l", "o", " ">>),
      Cmd(Textbf, <<<<"w", "o", "r", "l", "d">>>>),
      Text(<<".", "\n">>)>>

DocMenu ==
    {Text(<<"a">>),
     Env(<<"$">>, << >>, <<Text(<<"x">>)>>),
     Cmd(<<"b">>, << >>),
     Node("cmd", <<"b">>, << >>, <<Text(<<"t">>)>>),
     Cmd(<<"b">>, <<<<"x">>>>),
     Cmd(<<"b">>, <<<<"x">>, <<"y">>>>),
     Cmd(<<"B", "*">>, <<<<"x">>, <<"y">>, <<"z">>>>),
     Env(<<"e">>, <<<<"o">>>>, <<Text(<<"t">>)>>)}

Docs == SeqsUpTo(DocMenu, MaxDocNodes) \cup {ExampleDoc}

\* _to_plain_text called once more on the tree it has just rendered
RenderAgain ==
    /\ pc = "rendered"
    /\ runs < MaxRuns
    /\ runs' = runs + 1
    /\ last' = <<text>>
    /\ idx' = 1
    /\ text' = << >>
    /\ pc' = "render"
    /\ UNCHANGED <<flags, filters, tex, err, grandom, srandom, refs, doc, flagsArg,
                   it, src, crlf, arg,
                   script, source, destination, procs, argv,
                   given, encoded, decoded>>

InitDocs ==
    /\ pc = "new"
    /\ flags = << >>
    /\ filters = DocFilters
    /\ tex = << >>
    /\ idx = 0
    /\ text = << >>
    /\ err = "none"
    /\ grandom \in Seeds
    /\ srandom = << >>
    /\ refs = << >>
    /\ runs = 1
    /\ doc \in Docs
    /\ flagsArg \in {[isDebugLog |-> TRUE, value |-> DebugLog_OFF],
                     [isDebugLog |-> TRUE, value |-> DebugLog_ERROR]}
    /\ it = 0
    /\ last = << >>
    /\ src = << >>
    /\ crlf = CrlfFlag_Linux
    /\ arg = << >>
    /\ script = "none"
    /\ source = << >>
    /\ destination = << >>
    /\ procs = << >>
    /\ argv = << >>
    /\ given = 0
    /\ encoded = << >>
    /\ decoded = 0

NextDocs ==
    \/ Construct
    \/ BeginRender
    \/ RenderStep
    \/ RenderDone
    \/ RenderAgain
    \/ AtToBase36
    \/ NormalizeUnix
    \/ TranslateAccents
    \/ GenericSanitization
    \/ Normalize

SpecDocs == InitDocs /\ [][NextDocs]_vars

\* t with its k-th, (k+1)-th, ... '@' from position i on replaced by "$" and the
\* base36 form of toks[k], toks[k+1], ...
RECURSIVE WithTokens(_, _, _, _)
WithTokens(t, i, toks, k) ==
    IF i > Len(t) THEN << >>
    ELSE IF t[i] = "@"
    THEN <<"$">> \o base36_encode(toks[k]) \o WithTokens(t, i + 1, toks, k + 1)
    ELSE <<t[i]>> \o WithTokens(t, i + 1, toks, k)

\* C11: when the rendered text has k >= 2 marker characters '@', _attobase36
\* replaces each of them by a token of its own, the k tokens are pairwise
\* different, and no '@' is left.
C11_UniqueTokens ==
    [][(pc = "rendered" /\ pc' = "marked" /\ Count(text, <<"@">>) >= 2) =>
          /\ ~Contains(text', <<"@">>)
          /\ \E toks \in [1..Count(text, <<"@">>) -> Uuid4Values] :
                /\ \A h, k \in DOMAIN toks : h # k => toks[h] # toks[k]
                /\ text' = WithTokens(text, 1, toks, 1)]_vars

IntroHello ==
    <<"I", "n", "t", "r", "o", "\n", "H", "e", "l", "l", "o", " ",
      "w", "o", "r", "l", "d", ".">>

\* C13 as stated: with section and textbf classified extract-content, to_text
\* (formatting on) turns "\section{Intro}\nHello \textbf{world}.\n" into exactly
\* "Intro\nHello world.\n", the final line break included.
C13_EndToEnd ==
    (pc = "done" /\ doc = ExampleDoc) => text = IntroHello \o <<"\n">>

\* C13 amended: the text returned is exactly "Intro\nHello world.", without a
\* final line break (the last step of normalize strips the text).
C13_EndToEndStripped ==
    (pc = "done" /\ doc = ExampleDoc) => text = IntroHello

\* C13 witness: to_text has returned for the example document
C13_Witness ==
    /\ pc = "done"
    /\ doc = ExampleDoc
    /\ err = "none"
    /\ Len(text) = Len(IntroHello)

\* C14: _to_plain_text leaves the tree as the constructor built it, and a second
\* call on the same tree returns the string the first one returned (last holds
\* the string of the call before).
C14_RenderingPure ==
    /\ pc \in {"render", "rendered"} => tex = doc
    /\ (pc = "rendered" /\ runs >= 2) => text = last[1]

\* the text C17 gives for an extract-content command: its own contents for no
\* argument, its argument for one, the arguments after the first for several
ExtractedText(node, eng, g, s) ==
    IF Len(node.args) = 0
    THEN RenderSeq(node.children, 1, FALSE, eng,
                   Result(<< >>, node.children, g, s, "none", << >>)).out
    ELSE IF Len(node.args) = 1 THEN RenderArgs(<<node.args[1]>>)
    ELSE RenderArgs(SubSeq(node.args, 2, Len(node.args)))

\* C17: the loop iteration for a command classified extract-content with k
\* arguments appends the rendering of the command's contents when k = 0, of its
\* argument when k = 1, and of the arguments 2..k in order when k >= 2.
C17_ExtractContentArgs ==
    [][(AtNode /\ tex[idx].type = "cmd"
          /\ NormalizedName(tex[idx]) \in filters.latex_commands_to_extract) =>
          text' = text \o ExtractedText(tex[idx], Engine, grandom, srandom)]_vars

\* C17 witness: the loop has handled a starred extract-content command with three
\* arguments and appended the second and the third
C17_Witness ==
    /\ pc = "render"
    /\ runs = 1
    /\ idx = 2
    /\ doc[1] = Cmd(<<"B", "*">>, <<<<"x">>, <<"y">>, <<"z">>>>)
    /\ text = <<"y", "z">>

(***************************************************************************)
(* One engine, several calls: LaTeX(raw) followed by to_text(arg) calls on *)
(* the same instance, raw and the arguments being plain text.              *)
(***************************************************************************)
MaxRaw == 1

EngineAlphabet == {"a", "b"}

EngineTexts == SeqsUpTo(EngineAlphabet, MaxRaw)

\* core.py 60-99: one more call of to_text on the instance, with another argument
ToTextAgain ==
    /\ pc = "done"
    /\ runs < MaxRuns
    /\ runs' = runs + 1
    /\ arg' \in EngineTexts
    /\ pc' = "constructed"
    /\ UNCHANGED <<flags, filters, tex, idx, text, err, grandom, srandom, refs,
                   doc, flagsArg, it, last, src, crlf,
                   script, source, destination, procs, argv,
                   given, encoded, decoded>>

InitEngine ==
    /\ pc = "new"
    /\ flags = << >>
    /\ filters = DocFilters
    /\ tex = << >>
    /\ idx = 0
    /\ text = << >>
    /\ err = "none"
    /\ grandom = 0
    /\ srandom = << >>
    /\ refs = << >>
    /\ runs = 1
    /\ doc = << >>
    /\ flagsArg = [isDebugLog |-> TRUE, value |-> DebugLog_OFF]
    /\ it = 0
    /\ last = << >>
    /\ src \in EngineTexts
    /\ crlf = CrlfFlag_Linux
    /\ arg \in EngineTexts
    /\ script = "none"
    /\ source = << >>
    /\ destination = << >>
    /\ procs = << >>
    /\ argv = << >>
    /\ given = 0
    /\ encoded = << >>
    /\ decoded = 0

NextEngine ==
    \/ ConstructFromRaw
    \/ BeginRender
    \/ RenderStep
    \/ RenderDone
    \/ AtToBase36
    \/ NormalizeUnix
    \/ TranslateAccents
    \/ GenericSanitization
    \/ Normalize
    \/ ToTextAgain

SpecEngine == InitEngine /\ [][NextEngine]_vars

\* the sanitized text of a plain text x: what the steps of to_text make of it, one
\* after the other (its rendering is the preprocessed text, which holds no '@')
SanitizedText(x) ==
    normalize(
        _generic_sanitization(
            translate_accents(normalize_linebreaks(preprocess(x), CrlfFlag_Linux))),
        Markup_LaTeX)

\* C15: whatever raw string the constructor was given and whatever the earlier
\* calls on the instance were given, a call to_text(src) with a src that is not
\* empty returns the sanitized text of src.
C15_EngineStateless ==
    (pc = "done" /\ arg # << >>) => text = SanitizedText(arg)

(***************************************************************************)
(* Dispatch of a command whose name is in several tables.                  *)
(***************************************************************************)
MaxPriorityNodes == 1

TableNames == {"extract", "reference", "inline", "nbr", "ieee", "breakers"}

\* filters2.yaml with the name X added to the tables of S; nbr is what the table
\* latex_commands_to_discard_nbr holds besides
FiltersWith(X, S, nbr) ==
    LET f == Filters(nbr, {}, {})
        With(T, t) == IF t \in S THEN T \cup {X} ELSE T
    IN  [f EXCEPT
            !.latex_commands_to_extract = With(@, "extract"),
            !.latex_references_to_extract = With(@, "reference"),
            !.latex_commands_to_discard_inline = With(@, "inline"),
            !.latex_commands_to_discard_nbr = With(@, "nbr"),
            !.ieee_commands_to_discard_nbr = With(@, "ieee"),
            !.latex_line_page_breakers = With(@, "breakers")]

PriorityFilters ==
    {FiltersWith(X, S, nbr) :
        X \in {<<"a">>, <<"'">>, <<"w">>}, S \in SUBSET TableNames,
        nbr \in {{}, {<<"n">>}}}

PriorityMenu ==
    {Cmd(<<"a">>, << >>),
     Cmd(<<"'">>, <<<<"e">>>>),
     Cmd(<<"w">>, <<<<"k">>>>),
     Cmd(<<"W", "*">>, <<<<"k">>>>)}

PriorityDocs == SeqsUpTo(PriorityMenu, MaxPriorityNodes)

InitPriority ==
    /\ pc = "new"
    /\ flags = << >>
    /\ filters \in PriorityFilters
    /\ tex = << >>
    /\ idx = 0
    /\ text = << >>
    /\ err = "none"
    /\ grandom \in Seeds
    /\ srandom = << >>
    /\ refs = << >>
    /\ runs = 1
    /\ doc \in PriorityDocs
    /\ flagsArg \in {[isDebugLog |-> TRUE, value |-> DebugLog_OFF],
                     [isDebugLog |-> TRUE, value |-> DebugLog_ERROR]}
    /\ it = 0
    /\ last = << >>
    /\ src = << >>
    /\ crlf = CrlfFlag_Linux
    /\ arg = << >>
    /\ script = "none"
    /\ source = << >>
    /\ destination = << >>
    /\ procs = << >>
    /\ argv = << >>
    /\ given = 0
    /\ encoded = << >>
    /\ decoded = 0

NextPriority ==
    \/ Construct
    \/ BeginRender
    \/ RenderStep
    \/ RenderDone
    \/ AtToBase36
    \/ NormalizeUnix
    \/ TranslateAccents
    \/ GenericSanitization
    \/ Normalize

SpecPriority == InitPriority /\ [][NextPriority]_vars

\* the first category, in the order of C16, that a command belongs to; a command
\* is discard-with-newline if its name is in one of the three tables of that kind
Category(node, f) ==
    LET name == NormalizedName(node)
    IN  IF name \in f.latex_commands_to_extract THEN "extract"
        ELSE IF name \in f.latex_references_to_extract THEN "reference"
        ELSE IF name \in f.latex_commands_to_discard_inline THEN "inline"
        ELSE IF name \in f.latex_commands_to_discard_nbr
                         \cup f.ieee_commands_to_discard_nbr
                         \cup f.latex_line_page_breakers THEN "newline"
        ELSE IF IsAccent(CmdStr(node)) THEN "accent"
        ELSE IF CmdStr(node) \in DOMAIN unicodes THEN "symbol"
        ELSE "unknown"

\* the text that the action of a category appends for a command
ActionText(cat, node, eng, g, s) ==
    CASE cat = "extract" -> ExtractedText(node, eng, g, s)
      [] cat = "reference" -> RenderReference(node, NormalizedName(node), g, s).out
      [] cat = "inline" -> <<" ">>
      [] cat = "newline" -> <<"\n">>
      [] cat = "accent" -> CmdStr(node)
      [] cat = "symbol" -> unicodes[CmdStr(node)]
      [] cat = "unknown" -> RenderUnknown(node, UnknownCmdMarker(node), eng, g, s).out

\* C16: the loop iteration for a command applies the action of the first category
\* its normalized name belongs to, in the order extract-content,
\* extract-reference, discard-inline, discard-with-newline, accent, symbol,
\* unknown, and no other (a reference command is taken with its label argument).
C16_DispatchPriority ==
    [][(AtNode /\ tex[idx].type = "cmd"
          /\ ~(Category(tex[idx], filters) = "reference" /\ tex[idx].args = << >>)) =>
          text' = text \o ActionText(Category(tex[idx], filters), tex[idx], Engine,
                                     grandom, srandom)]_vars

(***************************************************************************)
(* The batch drivers: the main block of detex.py (multicore) and detexm.py *)
(* starts four worker processes, each running delatex / process_arxiv on a *)
(* window of the source collection.  The workers share the collections and *)
(* take their steps in any order; a step is what a worker does up to its   *)
(* next access to the destination or to the log collection.                *)
(*                                                                         *)
(* A source document is [title, kind]: kind "ok" converts, "raises" makes  *)
(* LaTeX(raw).to_text() raise, "nocategories" has no 'categories' field.   *)
(* A worker is at "start" (before the cursor), "fetch" (top of the loop),  *)
(* "extract", "insert", "log", "done" (loop left at the end of the cursor),*)
(* "unbound" (ended by the read of a cursor that was never assigned) or    *)
(* "aborted" (ended by an exception raised out of the loop).               *)
(***************************************************************************)
MaxTotal == 3

Workers == 4

Titles == {"t1", "t2"}

Kinds == {"ok", "raises", "nocategories"}

SourceDocs == [title : Titles, kind : Kinds]

\* round(m / 4) of Python 3, which rounds a half to the even neighbour
round4(m) ==
    LET q == m \div 4
        r == m % 4
    IN  IF r < 2 THEN q
        ELSE IF r > 2 THEN q + 1
        ELSE IF q % 2 = 0 THEN q ELSE q + 1

\* detex.py 166, detexm.py 112: limit = round(total/4 + 0.5)
Limit(total) == round4(total + 2)

\* detex.py 167, detexm.py 113: skips = range(0, 4*limit, limit), k = 1..4
Skip(k, total) == (k - 1) * Limit(total)

\* detex.py 169-173, detexm.py 116-120: the four processes are created and started
StartWorkers ==
    /\ procs = << >>
    /\ script \in {"detex", "detexm"}
    /\ procs' = [k \in 1..Workers |->
                   [pc |-> "start", skip |-> Skip(k, Len(source)),
                    limit |-> Limit(Len(source)), seen |-> << >>,
                    skipped |-> 0, success |-> 0, failure |-> 0]]
    /\ UNCHANGED <<pc, flags, filters, tex, idx, text, err, grandom, srandom, refs, runs,
                   doc, flagsArg, it, last, src, crlf, arg, script, source, destination, argv,
                   given, encoded, decoded>>

\* detex.py 69-72: the cursor is assigned only if skip is not 0, and line 74 reads
\* it; detexm.py 41: the cursor is always assigned
OpenCursor(w) ==
    /\ procs # << >>
    /\ procs[w].pc = "start"
    /\ procs' = [procs EXCEPT ![w].pc =
                    IF script = "detex" /\ procs[w].skip = 0 THEN "unbound"
                    ELSE "fetch"]
    /\ UNCHANGED <<pc, flags, filters, tex, idx, text, err, grandom, srandom, refs, runs,
                   doc, flagsArg, it, last, src, crlf, arg, script, source, destination, argv,
                   given, encoded, decoded>>

\* the index in source (from 1) of the next document of the cursor of worker w
NextIndex(w) == procs[w].skip + Len(procs[w].seen) + 1

\* the document worker w is handling: the last one it took from its cursor
Current(w) == source[procs[w].seen[Len(procs[w].seen)]]

\* detex.py 74-78 and 117-118, detexm.py 43-47 and 83: the cursor gives the next
\* document of the window, which is left out if the destination has its title;
\* at the end of the cursor the loop is left
Fetch(w) ==
    /\ procs # << >>
    /\ procs[w].pc = "fetch"
    /\ IF Len(procs[w].seen) < procs[w].limit /\ NextIndex(w) <= Len(source)
       THEN LET d == source[NextIndex(w)]
                present == \E k \in 1..Len(destination) : destination[k] = d.title
            IN  procs' = [procs EXCEPT
                            ![w].seen = Append(@, NextIndex(w)),
                            ![w].skipped = IF present THEN @ + 1 ELSE @,
                            ![w].pc = IF present THEN "fetch" ELSE "extract"]
       ELSE procs' = [procs EXCEPT ![w].pc = "done"]
    /\ UNCHANGED <<pc, flags, filters, tex, idx, text, err, grandom, srandom, refs, runs,
                   doc, flagsArg, it, last, src, crlf, arg, script, source, destination, argv,
                   given, encoded, decoded>>

\* detex.py 81-94, detexm.py 50-61: doc['categories'] is read before the try; the
\* conversion is inside it
Convert(w) ==
    /\ procs # << >>
    /\ procs[w].pc = "extract"
    /\ procs' = CASE Current(w).kind = "nocategories" ->
                        [procs EXCEPT ![w].pc = "aborted"]
                  [] Current(w).kind = "raises" ->
                        [procs EXCEPT ![w].failure = @ + 1, ![w].pc = "fetch"]
                  [] OTHER -> [procs EXCEPT ![w].pc = "insert"]
    /\ UNCHANGED <<pc, flags, filters, tex, idx, text, err, grandom, srandom, refs, runs,
                   doc, flagsArg, it, last, src, crlf, arg, script, source, destination, argv,
                   given, encoded, decoded>>

\* detex.py 95-104, detexm.py 62-70: destination.insert_one inside the try; the
\* insertion succeeds or raises
Insert(w) ==
    /\ procs # << >>
    /\ procs[w].pc = "insert"
    /\ \/ /\ destination' = Append(destination, Current(w).title)
          /\ procs' = [procs EXCEPT ![w].success = @ + 1, ![w].pc = "log"]
       \/ /\ procs' = [procs EXCEPT ![w].failure = @ + 1, ![w].pc = "fetch"]
          /\ UNCHANGED destination
    /\ UNCHANGED <<pc, flags, filters, tex, idx, text, err, grandom, srandom, refs, runs,
                   doc, flagsArg, it, last, src, crlf, arg, script, source, argv,
                   given, encoded, decoded>>

\* detex.py 106-115, detexm.py 72-81: processing_logs.insert_one after the try;
\* the insertion succeeds or raises
Log(w) ==
    /\ procs # << >>
    /\ procs[w].pc = "log"
    /\ \E ok \in BOOLEAN :
          procs' = [procs EXCEPT ![w].pc = IF ok THEN "fetch" ELSE "aborted"]
    /\ UNCHANGED <<pc, flags, filters, tex, idx, text, err, grandom, srandom, refs, runs,
                   doc, flagsArg, it, last, src, crlf, arg, script, source, destination, argv,
                   given, encoded, decoded>>

InitBatch ==
    /\ pc = "batch"
    /\ flags = << >>
    /\ filters = Filters({}, {}, {})
    /\ tex = << >>
    /\ idx = 0
    /\ text = << >>
    /\ err = "none"
    /\ grandom = 0
    /\ srandom = << >>
    /\ refs = << >>
    /\ runs = 1
    /\ doc = << >>
    /\ flagsArg = [isDebugLog |-> TRUE, value |-> DebugLog_OFF]
    /\ it = 0
    /\ last = << >>
    /\ src = << >>
    /\ crlf = 0
    /\ arg = << >>
    /\ script \in {"detex", "detexm"}
    /\ source \in UNION {[1..n -> SourceDocs] : n \in 1..MaxTotal}
    /\ destination \in {<< >>, <<"t1">>}
    /\ procs = << >>
    /\ argv = << >>
    /\ given = 0
    /\ encoded = << >>
    /\ decoded = 0

NextBatch ==
    \/ StartWorkers
    \/ \E w \in 1..Workers : OpenCursor(w)
    \/ \E w \in 1..Workers : Fetch(w)
    \/ \E w \in 1..Workers : Convert(w)
    \/ \E w \in 1..Workers : Insert(w)
    \/ \E w \in 1..Workers : Log(w)

SpecBatch == InitBatch /\ [][NextBatch]_vars

\* the documents worker w took from its cursor
Seen(w) == {procs[w].seen[k] : k \in 1..Len(procs[w].seen)}

\* the window of worker w: the indices (from 1) its skip and limit select
Window(w) == {n \in 1..Len(source) : procs[w].skip < n /\ n <= procs[w].skip + procs[w].limit}

\* C18: whatever fails for a document (the conversion raises, the 'categories'
\* field is missing, an insertion fails), no worker's loop is ended by it, and a
\* worker that leaves its loop at the end of the cursor has counted every
\* document it iterated as skipped, as a success or as a failure.
C18_BatchFailureIsolation ==
    procs # << >> =>
        \A w \in 1..Workers :
            /\ procs[w].pc # "aborted"
            /\ procs[w].pc = "done" =>
                  procs[w].skipped + procs[w].success + procs[w].failure
                      = Len(procs[w].seen)

\* C19: for a collection of total >= 1 documents every one of the four workers
\* gets a cursor (the worker with skip = 0 too), the four windows are pairwise
\* disjoint and cover every document, and when all four have left their loops at
\* the end of the cursor every document was visited by exactly one of them.
C19_FanOutCovers ==
    procs # << >> =>
        /\ \A w \in 1..Workers : procs[w].pc # "unbound"
        /\ \A n \in 1..Len(source) :
              Cardinality({w \in 1..Workers : n \in Window(w)}) = 1
        /\ (\A w \in 1..Workers : procs[w].pc = "done") =>
              \A n \in 1..Len(source) :
                  Cardinality({w \in 1..Workers : n \in Seen(w)}) = 1

\* C20: whatever the order of the workers' steps, the destination never holds two
\* documents with the same title.
C20_NoDuplicateTitles ==
    \A i, j \in 1..Len(destination) :
        i # j => destination[i] # destination[j]

(***************************************************************************)
(* The command line: detex.py and detexm.py read the debug mode with        *)
(* argparse and hand it to every engine they build.                         *)
(***************************************************************************)
MaxCliNodes == 2

\* the option string "-debug"
DebugOption == <<"-", "d", "e", "b", "u", "g">>

\* detex.py 42, detexm.py 26: default='False' and const='False' are strings
DebugDefault == <<"F", "a", "l", "s", "e">>

DebugConst == <<"F", "a", "l", "s", "e">>

\* detex.py 42, detexm.py 26: type=bool; bool of a string is True unless the
\* string is empty
bool(s) == s # << >>

\* parser.parse_args(): the debug attribute. argparse passes a default that is a
\* string through type, as it does the const of nargs='?' when the option has no
\* value, and the value when it has one
parse_args(a) ==
    IF a = << >> THEN bool(DebugDefault)
    ELSE IF Len(a) = 1 THEN bool(DebugConst)
    ELSE bool(a[2])

\* detex.py 137, detexm.py 103: dbgflag = DebugLog.ERROR if argv.debug else DebugLog.OFF
dbgflag(a) == IF parse_args(a) THEN DebugLog_ERROR ELSE DebugLog_OFF

\* the command lines: no -debug, -debug alone, -debug False, -debug True,
\* -debug '' and -debug 0
CmdLines ==
    {<< >>,
     <<DebugOption>>,
     <<DebugOption, <<"F", "a", "l", "s", "e">>>>,
     <<DebugOption, <<"T", "r", "u", "e">>>>,
     <<DebugOption, << >>>>,
     <<DebugOption, <<"0">>>>}

\* documents with known and unknown constructs
CliMenu ==
    {Text(<<"t">>),
     Cmd(<<"z">>, << >>),
     Cmd(<<"Z", "*">>, <<<<"t">>>>),
     Cmd(<<"n">>, << >>),
     Env(<<"u">>, << >>, <<Text(<<"t">>)>>)}

CliDocs == SeqsUpTo(CliMenu, MaxCliNodes)

\* detex.py 136-137, detexm.py 102-103: the command line is parsed and the debug
\* mode every engine is built with (detex.py 93, detexm.py 60) is chosen
ParseArgs ==
    /\ pc = "cli"
    /\ flagsArg' = [isDebugLog |-> TRUE, value |-> dbgflag(argv)]
    /\ pc' = "new"
    /\ UNCHANGED <<flags, filters, tex, idx, text, err, grandom, srandom, refs, runs,
                   doc, it, last, src, crlf, arg,
                   script, source, destination, procs, argv,
                   given, encoded, decoded>>

InitCli ==
    /\ pc = "cli"
    /\ flags = << >>
    /\ filters = Filters({<<"n">>}, {}, {<<"p">>})
    /\ tex = << >>
    /\ idx = 0
    /\ text = << >>
    /\ err = "none"
    /\ grandom \in Seeds
    /\ srandom = << >>
    /\ refs = << >>
    /\ runs = 1
    /\ doc \in CliDocs
    /\ flagsArg = [isDebugLog |-> FALSE, value |-> 0]
    /\ it = 0
    /\ last = << >>
    /\ src = << >>
    /\ crlf = CrlfFlag_Linux
    /\ arg = << >>
    /\ script \in {"detex", "detexm"}
    /\ source = << >>
    /\ destination = << >>
    /\ procs = << >>
    /\ argv \in CmdLines
    /\ given = 0
    /\ encoded = << >>
    /\ decoded = 0

NextCli ==
    \/ ParseArgs
    \/ Construct
    \/ BeginRender
    \/ RenderStep
    \/ RenderDone
    \/ AtToBase36
    \/ NormalizeUnix
    \/ TranslateAccents
    \/ GenericSanitization
    \/ Normalize

SpecCli == InitCli /\ [][NextCli]_vars

\* the command lines without -debug and with -debug False
DebugNotRequested == {<< >>, <<DebugOption, <<"F", "a", "l", "s", "e">>>>}

\* the start of the inline diagnostic marker
ErrorMarker == <<"#", "E", "r", "r", "o", "r", "!">>

\* C21: once the command line is parsed, without -debug and with -debug False the
\* debug mode given to every engine is Off and the text to_text returns holds no
\* diagnostic marker; the mode is ReportUnknown only with -debug True.
C21_DebugFromCommandLine ==
    pc # "cli" =>
        /\ argv \in DebugNotRequested => flagsArg.value = DebugLog_OFF
        /\ flagsArg.value = DebugLog_ERROR =>
              argv = <<DebugOption, <<"T", "r", "u", "e">>>>
        /\ (pc = "done" /\ argv \in DebugNotRequested) => ~Contains(text, ErrorMarker)

(***************************************************************************)
(* helpers.py: base36_encode and base36_decode.                             *)
(***************************************************************************)
MaxNum == 1400

\* the value of a digit of int(s, 36) among the characters base36_encode writes
Base36Value(c) == CHOOSE d \in 0..35 : Base36Chars[d + 1] = c

\* int(s, 36) on a string of digits and upper-case letters, from the left; on the
\* empty string and on any other character int raises ValueError (-1 here)
RECURSIVE int36(_, _)
int36(s, acc) ==
    IF s = << >> THEN acc
    ELSE IF \A d \in 0..35 : Base36Chars[d + 1] # s[1] THEN -1
    ELSE int36(Tail(s), acc * 36 + Base36Value(s[1]))

\* base36_decode reading the string in base 10
base36_decode_Base10(s) ==
    IF s = << >> \/ \E k \in 1..Len(s) : ~IsDigit(s[k]) THEN -1 ELSE int(s)

\* helpers.py 60-62: return int(s, 36)
base36_decode(s) == IF s = << >> THEN -1 ELSE int36(s, 0)

\* helpers.py 45-57: base36_encode(num) is called and returns
Encode ==
    /\ pc = "base36"
    /\ encoded' = base36_encode(given)
    /\ pc' = "encoded"
    /\ UNCHANGED <<flags, filters, tex, idx, text, err, grandom, srandom, refs, runs,
                   doc, flagsArg, it, last, src, crlf, arg,
                   script, source, destination, procs, argv, given, decoded>>

\* helpers.py 60-62: base36_decode is called with the string base36_encode returned
Decode ==
    /\ pc = "encoded"
    /\ decoded' = base36_decode(encoded)
    /\ pc' = "decoded"
    /\ UNCHANGED <<flags, filters, tex, idx, text, err, grandom, srandom, refs, runs,
                   doc, flagsArg, it, last, src, crlf, arg,
                   script, source, destination, procs, argv, given, encoded>>

\* helpers.py 50: assert num >= 0
InitBase36 ==
    /\ pc = "base36"
    /\ flags = << >>
    /\ filters = Filters({}, {}, {})
    /\ tex = << >>
    /\ idx = 0
    /\ text = << >>
    /\ err = "none"
    /\ grandom = 0
    /\ srandom = << >>
    /\ refs = << >>
    /\ runs = 1
    /\ doc = << >>
    /\ flagsArg = [isDebugLog |-> TRUE, value |-> DebugLog_OFF]
    /\ it = 0
    /\ last = << >>
    /\ src = << >>
    /\ crlf = 0
    /\ arg = << >>
    /\ script = "none"
    /\ source = << >>
    /\ destination = << >>
    /\ procs = << >>
    /\ argv = << >>
    /\ given \in 0..MaxNum
    /\ encoded = << >>
    /\ decoded = 0

NextBase36 ==
    \/ Encode
    \/ Decode

SpecBase36 == InitBase36 /\ [][NextBase36]_vars

\* the number of base-36 digits of n: 1 for n < 36
RECURSIVE Base36Digits(_)
Base36Digits(n) == IF n < 36 THEN 1 ELSE 1 + Base36Digits(n \div 36)

\* C22: for every integer n >= 0, base36_encode(n) returns a non-empty string of
\* the digits 0-9 and the letters A-Z, with no leading "0" unless n = 0, where it
\* is "0"; base36_decode gives n back; and no other integer has the same string.
C22_Base36RoundTrip ==
    /\ pc \in {"encoded", "decoded"} =>
          /\ encoded # << >>
          /\ Len(encoded) = Base36Digits(given)
          /\ \A k \in 1..Len(encoded) : \E d \in 0..35 : Base36Chars[d + 1] = encoded[k]
          /\ encoded[1] = "0" <=> given = 0
          /\ given = 0 => encoded = <<"0">>
          /\ \A m \in 0..MaxNum : m # given => base36_encode(m) # encoded
    /\ pc = "decoded" => decoded = given

\* C22 witness: 1295 and 1296 were encoded as "ZZ" and "100" and decoded back
C22_Witness ==
    /\ pc = "decoded"
    /\ \/ given = 1295 /\ encoded = <<"Z", "Z">> /\ decoded = 1295
       \/ given = 1296 /\ encoded = <<"1", "0", "0">> /\ decoded = 1296

====
